---- MODULE Spec2Model ----
(***************************************************************************)
(* Turn-taking engine of the voice-conversation server.                    *)
(*                                                                         *)
(*   core/handle/audioHandle.py  frame intake, finalize, exit command,     *)
(*                               delayed notifications, idle timeout,      *)
(*                               music playback                            *)
(*   core/utils/asr.py           ASRService: incremental transcription     *)
(*                                                                         *)
(*   core/providers/tts/caibao.py  TTSProvider: task polling               *)
(*                                                                         *)
(* Six specifications share the module:                                    *)
(*   Spec       one session: frame intake, finalize, the scheduled         *)
(*              notifications, responses of one segment                    *)
(*   SpecResp   the delivery of one response of several segments, with     *)
(*              the client's interruption                                  *)
(*   SpecPlaying  one session while a music playback is under way          *)
(*   SpecASR    one run of ASRService.get_transcription                    *)
(*   SpecMusic  one run of the frame loop of send_music_file               *)
(*   SpecCaibao one run of TTSProvider.text_to_speak                       *)
(***************************************************************************)
EXTENDS Integers, Sequences, FiniteSets, TLC

(***************************************************************************)
(* Bounds of the model.                                                    *)
(***************************************************************************)
MaxTime == 4          \* the clock stops here
MaxBuf == 2           \* frames kept in conn.asr_audio
MaxChats == 2         \* calls of startToChat / music playbacks per session
MaxUtt == 2           \* finalize attempts per session
MaxSegs == 2          \* segments of one response
MaxCmdLen == 2        \* largest configured conn.max_cmd_length

\* conn.config["close_connection_no_voice_time"], in seconds (default 120)
close_connection_no_voice_time == 1

(***************************************************************************)
(* Texts are sequences of characters.  "." is punctuation, "q" and "x" are *)
(* letters, "m" is the word of a music request, "z" "j" is a farewell.     *)
(***************************************************************************)
Punctuation == {".", "!"}

\* texts conn.asr.speech_to_text may return for an utterance
Transcripts == {<<>>, <<".">>, <<"q">>, <<"q", ".">>, <<"q", "x">>, <<"x", "q">>,
                <<"q", "q">>, <<"m">>}

\* `tok in text` of Python: tok occurs as a contiguous slice of text
Contains(text, tok) ==
    \E i \in 0..(Len(text) - Len(tok)) :
        \A k \in 1..Len(tok) : text[i + k] = tok[k]

RECURSIVE StripPunct(_)
StripPunct(text) ==
    IF text = <<>> THEN <<>>
    ELSE IF Head(text) \in Punctuation THEN StripPunct(Tail(text))
         ELSE <<Head(text)>> \o StripPunct(Tail(text))

\* core.utils.util.remove_punctuation_and_length: (length, stripped text)
remove_punctuation_and_length(text) ==
    LET r == StripPunct(text) IN <<Len(r), r>>

\* conn.cmd_exit, the configured exit phrases
cmd_exit == <<<<"q">>, <<"q", "x">>>>

VARIABLES
    now,                       \* time.time(), in seconds
    client_listen_mode,        \* conn.client_listen_mode: "auto" or "manual"
    max_cmd_length,            \* conn.max_cmd_length
    asr_server_receive,        \* conn.asr_server_receive
    client_have_voice,         \* conn.client_have_voice
    client_voice_stop,         \* conn.client_voice_stop
    client_abort,              \* conn.client_abort
    asr_audio,                 \* conn.asr_audio: frames, each tagged with its utterance
    client_no_voice_last_time, \* conn.client_no_voice_last_time, in ms (0 = unset)
    scheduled_tasks,           \* conn.scheduled_tasks: the tasks created so far
    closed,                    \* conn.close() has run
    sent,                      \* what the last step handed to conn.websocket.send
    pc,                        \* handleAudioMessage: "idle", "asr" (line 37), "music" (line 44)
    asr_text,                  \* what conn.asr.speech_to_text makes of conn.asr_audio
    utt,                       \* number of the utterance being collected
    nchat,                     \* responses requested so far (startToChat, music)
    chats,                     \* conn.executor.submit(conn.chat, .): requests waiting
    cur,                       \* number of the response being delivered
    resp,                      \* segments of the response still to be sent
    send_pc,                   \* sendAudioMessage: "none" or "sending" (lines 112-113)
    resp_played,               \* durations of the segments of the response sent so far
    tts_duration,              \* conn.tts_duration
    tts_start_speak_time,      \* conn.tts_start_speak_time
    tts_first_text,            \* conn.tts_first_text
    tts_last_text,             \* conn.tts_last_text
    llm_finish_task            \* conn.llm_finish_task

\* ASRService (asr.py): one run of get_transcription
VARIABLES
    apc,               \* "loop" (line 339), "frames" (358), "upload" (365),
                       \* "backoff" (lines 287, 325), "done"
    elapsed,           \* time.time() - start_time, in seconds
    use_http,          \* self.use_http
    self_text,         \* self.text
    is_in_silence,     \* self.is_in_silence
    silent_duration,   \* process_audio: silent_duration, in ms
    chunks_processed,  \* process_audio: chunks_processed
    frames_left,       \* frames of the current chunk not yet examined
    retry,             \* upload: retry, the index of the attempt in progress
    silent_run,        \* silent frames examined since the last voiced one
    last_upload,       \* what the last completed upload returned, and why;
                       \* err: the failure the running upload retries after
    result             \* what get_transcription returned, and how

asrVars == <<apc, elapsed, use_http, self_text, is_in_silence, silent_duration,
             chunks_processed, frames_left, retry, silent_run, last_upload, result>>

\* send_music_file (audioHandle.py): one run of the frame loop, lines 221-239
VARIABLES
    mpc,               \* "loop" (line 226), "done" (line 241), "failed" (line 248)
    raw_len,           \* len(raw_data), in bytes
    offset,            \* the loop variable i
    encoded,           \* the frames handed to encoder.encode, in order
    packets            \* packets handed to conn.websocket.send

musicVars == <<mpc, raw_len, offset, encoded, packets>>

(***************************************************************************)
(* One run of TTSProvider.text_to_speak (core/providers/tts/caibao.py).    *)
(***************************************************************************)
VARIABLES
    cpc,               \* "create" (line 37), "top" (130), "poll" (137),
                       \* "sleep" (169), "download" (57), "done"
    wait_elapsed,      \* time.time() - start_time, in tenths of a second
    task_status,       \* what the last get_task_detail delivered
    wait_outcome,      \* wait_for_completion: "none", "returned", "raised", "timeout"
    file_exists        \* output_file exists

caibaoVars == <<cpc, wait_elapsed, task_status, wait_outcome, file_exists>>

sessVars == <<now, client_listen_mode, max_cmd_length, asr_server_receive,
              client_have_voice, client_voice_stop, client_abort, asr_audio,
              client_no_voice_last_time, scheduled_tasks, closed, sent, pc, asr_text,
              utt, nchat, chats, cur, resp, send_pc, resp_played, tts_duration,
              tts_start_speak_time,
              tts_first_text, tts_last_text, llm_finish_task>>

vars == <<sessVars, asrVars, musicVars, caibaoVars>>

NoText == <<"-">>      \* None

(***************************************************************************)
(* Responses: the segments conn.chat hands to sendAudioMessage.            *)
(***************************************************************************)
\* The segments of one response have different texts: segment k starts with
\* the k-th of these characters.
SegHeads == <<"a", "b", "c", "d">>
SegBodies == {<<"x">>, <<"z", ".", "j">>}
SegDurations == {1, 2}
SegmentsAt(k) == {[text |-> <<SegHeads[k]>> \o b, dur |-> d] : b \in SegBodies, d \in SegDurations}
ResponsesOfLen(n) == {r \in [1..n -> UNION {SegmentsAt(k) : k \in 1..n}] :
                         \A k \in 1..n : r[k] \in SegmentsAt(k)}
Responses == UNION {ResponsesOfLen(n) : n \in 1..MaxSegs}

\* one-segment responses that last one second
ShortResponses == {r \in ResponsesOfLen(1) : r[1].dur = 1}

\* the farewell tokens of isLLMWantToFinish
FarewellTokens == {<<"z", "j">>, <<"b", "b">>}

isLLMWantToFinish(first_text, last_text) ==
    \/ \E tok \in FarewellTokens :
           Contains(remove_punctuation_and_length(last_text)[2], tok)
    \/ \E tok \in FarewellTokens :
           Contains(remove_punctuation_and_length(first_text)[2], tok)

(***************************************************************************)
(* Scheduled notifications: asyncio tasks running schedule_with_interrupt. *)
(*   st    "sleeping" in asyncio.sleep(delay), "running" inside coro,      *)
(*         "done", or "cancelled"                                          *)
(*   prog  messages the coroutine has sent so far                          *)
(***************************************************************************)
TaskKinds == {"stt", "sentence_start", "stop", "finish"}

\* asyncio.sleep(delay): a delay <= 0 yields once and wakes at once
SleepUntil(at, delay) == at + (IF delay > 0 THEN delay ELSE 0)

NewTask(kind, rid, delay) ==
    [kind |-> kind, rid |-> rid, delay |-> delay, at |-> now,
     due |-> SleepUntil(now, delay), st |-> "sleeping", prog |-> 0]

\* the messages the coroutine of a notification sends, in order
TaskMessages(kind) ==
    CASE kind = "stt" -> <<"stt", "llm", "tts_start">>
      [] kind = "sentence_start" -> <<"tts_sentence_start">>
      [] kind = "stop" -> <<"tts_stop">>
      [] kind = "finish" -> <<>>

\* Task.cancel(): CancelledError is raised at the await the task is suspended
\* in and schedule_with_interrupt swallows it; a finished task is not touched
Cancelled_keeps_sleeping(t) ==
    IF t.st = "running" THEN [t EXCEPT !.st = "cancelled"] ELSE t

schedule_with_interrupt_cancelled(t) ==
    IF t.st \in {"sleeping", "running"} THEN [t EXCEPT !.st = "cancelled"] ELSE t

\* the event loop wakes sleepers in the order of their wake-up times; two
\* tasks created by the same handler run wake in the order of their creation
WakesBefore(j, i) ==
    LET a == scheduled_tasks[j]
        b == scheduled_tasks[i]
    IN  /\ a.st = "sleeping"
        /\ \/ a.due < b.due
           \/ a.due = b.due /\ a.at = b.at /\ j < i

CanFire(i) ==
    /\ scheduled_tasks[i].st = "sleeping"
    /\ now >= scheduled_tasks[i].due
    /\ ~ \E j \in DOMAIN scheduled_tasks : j # i /\ WakesBefore(j, i)

CancelAllTasks(tasks) ==
    [i \in DOMAIN tasks |-> schedule_with_interrupt_cancelled(tasks[i])]

\* no transcription run of ASRService is under way
ASRIdle ==
    /\ apc = "done"
    /\ elapsed = 0
    /\ use_http = TRUE
    /\ self_text = <<>>
    /\ is_in_silence = FALSE
    /\ silent_duration = 0
    /\ chunks_processed = 0
    /\ frames_left = 0
    /\ retry = 0
    /\ silent_run = 0
    /\ last_upload = [value |-> <<>>, why |-> "none", err |-> "none"]
    /\ result = [how |-> "none", value |-> <<>>]

\* no music file is being sent frame by frame
CaibaoIdle ==
    /\ cpc = "done"
    /\ wait_elapsed = 0
    /\ task_status = "none"
    /\ wait_outcome = "none"
    /\ file_exists = FALSE

MusicIdle ==
    /\ mpc = "done"
    /\ raw_len = 0
    /\ offset = 0
    /\ encoded = <<>>
    /\ packets = 0

(***************************************************************************)
(* The session after construction.                                         *)
(***************************************************************************)
Init ==
    /\ now = 1
    /\ client_listen_mode \in {"auto", "manual"}
    /\ max_cmd_length \in 1..MaxCmdLen
    /\ asr_server_receive = TRUE
    /\ client_have_voice = FALSE
    /\ client_voice_stop = FALSE
    /\ client_abort = FALSE
    /\ asr_audio = <<>>
    /\ client_no_voice_last_time = 0
    /\ scheduled_tasks = <<>>
    /\ closed = FALSE
    /\ sent = <<>>
    /\ pc = "idle"
    /\ asr_text = NoText
    /\ utt = 1
    /\ nchat = 0
    /\ chats = <<>>
    /\ cur = 0
    /\ resp = <<>>
    /\ send_pc = "none"
    /\ resp_played = 0
    /\ tts_duration = 0
    /\ tts_start_speak_time = 0
    /\ tts_first_text = NoText
    /\ tts_last_text = NoText
    /\ llm_finish_task = FALSE
    /\ ASRIdle
    /\ MusicIdle
    /\ CaibaoIdle

ttsVars == <<tts_duration, tts_start_speak_time, tts_first_text, tts_last_text,
             llm_finish_task>>
respVars == <<cur, resp, send_pc, resp_played>>
cfgVars == <<client_listen_mode, max_cmd_length>>

\* Time passes, one second at a time.  The clock is coarse: a handler that is
\* between two awaits finishes, and a notification that is due wakes, within
\* the current second.
Tick ==
    /\ now < MaxTime
    /\ pc = "idle" /\ send_pc = "none"
    /\ ~ \E i \in DOMAIN scheduled_tasks :
            scheduled_tasks[i].st = "running" \/ CanFire(i)
    /\ now' = now + 1
    /\ sent' = <<>>
    /\ UNCHANGED <<cfgVars, asr_server_receive, client_have_voice, client_voice_stop,
                   client_abort, asr_audio, client_no_voice_last_time,
                   scheduled_tasks, closed, pc, asr_text, utt, nchat, chats,
                   respVars, ttsVars>>
    /\ UNCHANGED <<asrVars, musicVars, caibaoVars>>

(***************************************************************************)
(* startToChat: the stt notification with delay 0, and the chat request.   *)
(***************************************************************************)
startToChat_tasks(tasks, rid) == Append(tasks, NewTask("stt", rid, 0))

\* no_voice_close_connect, lines 180-186: has the idle limit passed?
IdleTooLong(last) ==
    now * 1000 - last > 1000 * close_connection_no_voice_time

(***************************************************************************)
(* handleAudioMessage, lines 17-36: one frame arrives.                     *)
(*   vad_voice  what conn.vad.is_vad returns for the frame (auto mode)     *)
(*   vad_stop   the detector decides the utterance has ended               *)
(*   text       what speech_to_text will deliver if the frame ends the     *)
(*              utterance (NoText: nothing)                                *)
(***************************************************************************)
\* lines 18-20: `if not conn.asr_server_receive: return`
handleAudioMessage_paused_never == FALSE

handleAudioMessage_paused == ~asr_server_receive

FrameIgnored ==
    /\ ~closed /\ pc = "idle"
    /\ handleAudioMessage_paused
    /\ sent' = <<>>
    /\ UNCHANGED <<now, cfgVars, asr_server_receive, client_have_voice,
                   client_voice_stop, client_abort, asr_audio,
                   client_no_voice_last_time, scheduled_tasks, closed, pc, asr_text,
                   utt, nchat, chats, respVars, ttsVars>>
    /\ UNCHANGED <<asrVars, musicVars, caibaoVars>>

FrameSilent(vad_voice) ==
    LET hv_flag == IF client_listen_mode = "auto"
                   THEN client_have_voice \/ vad_voice
                   ELSE client_have_voice
        have_voice == IF client_listen_mode = "auto" THEN vad_voice ELSE hv_flag
    IN  /\ ~closed /\ pc = "idle"
        /\ ~handleAudioMessage_paused
        /\ ~have_voice /\ ~hv_flag
        /\ IF client_no_voice_last_time = 0
           THEN /\ client_no_voice_last_time' = now * 1000
                /\ UNCHANGED <<client_abort, asr_server_receive, scheduled_tasks,
                               nchat, chats>>
           ELSE IF IdleTooLong(client_no_voice_last_time) /\ nchat < MaxChats
                THEN /\ client_abort' = FALSE
                     /\ asr_server_receive' = FALSE
                     /\ nchat' = nchat + 1
                     /\ scheduled_tasks' = startToChat_tasks(scheduled_tasks, nchat + 1)
                     /\ chats' = Append(chats, nchat + 1)
                     /\ UNCHANGED client_no_voice_last_time
                ELSE /\ ~IdleTooLong(client_no_voice_last_time)
                     /\ UNCHANGED <<client_abort, asr_server_receive, scheduled_tasks,
                                    nchat, chats, client_no_voice_last_time>>
        /\ asr_audio' = <<>>
        /\ sent' = <<>>
        /\ UNCHANGED <<now, cfgVars, client_have_voice, client_voice_stop, closed,
                       pc, asr_text, utt, respVars, ttsVars>>
        /\ UNCHANGED <<asrVars, musicVars, caibaoVars>>

FrameVoiced(vad_voice, vad_stop, text) ==
    LET hv_flag == IF client_listen_mode = "auto"
                   THEN client_have_voice \/ vad_voice
                   ELSE client_have_voice
        have_voice == IF client_listen_mode = "auto" THEN vad_voice ELSE hv_flag
        stop_flag == IF client_listen_mode = "auto"
                     THEN client_voice_stop \/ (vad_stop /\ hv_flag /\ ~vad_voice)
                     ELSE client_voice_stop
    IN  /\ ~closed /\ pc = "idle"
        /\ ~handleAudioMessage_paused
        /\ have_voice \/ hv_flag
        /\ Len(asr_audio) < MaxBuf
        /\ client_have_voice' = hv_flag
        /\ client_voice_stop' = stop_flag
        /\ client_no_voice_last_time' = 0
        /\ asr_audio' = Append(asr_audio, utt)
        /\ IF stop_flag
           THEN /\ utt < MaxUtt
                /\ client_abort' = FALSE
                /\ asr_server_receive' = FALSE
                /\ pc' = "asr"
                /\ asr_text' = text
                /\ utt' = utt + 1
           ELSE /\ text = NoText
                /\ UNCHANGED <<client_abort, asr_server_receive, pc, utt, asr_text>>
        /\ sent' = <<>>
        /\ UNCHANGED <<now, cfgVars, scheduled_tasks, closed, nchat, chats,
                       respVars, ttsVars>>
        /\ UNCHANGED <<asrVars, musicVars, caibaoVars>>

(***************************************************************************)
(* handleCMDMessage: is the stripped transcript one of the exit phrases?   *)
(***************************************************************************)
handleCMDMessage_substring(text) ==
    \E k \in DOMAIN cmd_exit : Contains(text, cmd_exit[k])

handleCMDMessage(text) ==
    \E k \in DOMAIN cmd_exit : text = cmd_exit[k]

\* line 40: the length guard, then the exit-command check
IsExitCommand(text_len, text) ==
    text_len <= max_cmd_length /\ handleCMDMessage(text)

\* check_and_play_music, line 254
MusicTokens == {<<"p", "m">>, <<"m">>, <<"s">>}

IsMusicRequest(text) == \E tok \in MusicTokens : Contains(text, tok)

Msg(m, rid) == [msg |-> m, rid |-> rid]

\* send_stt_message: stt, llm, then send_tts_message(conn, "start")
SttMessages(rid) == <<Msg("stt", rid), Msg("llm", rid), Msg("tts_start", rid)>>

\* conn.close(): the transport is closed and every notification revoked
ConnClose ==
    /\ closed' = TRUE
    /\ scheduled_tasks' = CancelAllTasks(scheduled_tasks)

\* conn.clearSpeakStatus(): the speaking status is cleared, intake resumes
clearSpeakStatus ==
    /\ asr_server_receive' = TRUE
    /\ tts_duration' = 0

\* conn.reset_vad_states()
ResetVadStates ==
    /\ client_have_voice' = FALSE
    /\ client_voice_stop' = FALSE

(***************************************************************************)
(* handleAudioMessage, lines 37-39, when conn.asr.speech_to_text delivers  *)
(* no text.  A provider that fails returns (None, None) (asr.py 97-99,     *)
(* 185-187) and line 39 raises on the None text; speech_to_text is also    *)
(* declared `async def` (asr.py 29, 74, 154) and called without await, and *)
(* then the unpacking in line 37 raises.  The exception leaves the         *)
(* handler: lines 40-53 do not run.                                        *)
(***************************************************************************)
FinalizeRaise ==
    /\ ~closed /\ pc = "asr"
    /\ asr_text = NoText
    /\ pc' = "idle"
    /\ asr_text' = NoText
    /\ sent' = <<>>
    /\ UNCHANGED <<now, cfgVars, asr_server_receive, client_have_voice,
                   client_voice_stop, client_abort, asr_audio,
                   client_no_voice_last_time, scheduled_tasks, closed, utt,
                   nchat, chats, respVars, ttsVars>>
    /\ UNCHANGED <<asrVars, musicVars, caibaoVars>>

(***************************************************************************)
(* handleAudioMessage, lines 37-53, for a transcript `text`.               *)
(*   music_files  os.listdir("music") has a playable file                  *)
(*   outcome      of send_music_file: "ok", or the step that raised        *)
(*   dur          length of the music asset, in seconds                    *)
(* On a music request the handler runs up to the frame loop of             *)
(* send_music_file (line 226) and is suspended there, in the awaited       *)
(* sends, until FinalizeMusicEnd.                                          *)
(***************************************************************************)
FinalizeText(music_files, outcome, dur) ==
    LET text == asr_text
        r == remove_punctuation_and_length(text)
        text_len == r[1]
        text_without_punctuation == r[2]
        rid == nchat + 1
        music == IsMusicRequest(text_without_punctuation) /\ music_files
        sentence == NewTask("sentence_start", rid, 0)
    IN  /\ ~closed /\ pc = "asr"
        /\ asr_text # NoText
        /\ IF IsExitCommand(text_len, text_without_punctuation)
           THEN /\ ConnClose
                /\ sent' = <<>>
                /\ pc' = "idle"
                /\ asr_text' = NoText
                /\ UNCHANGED <<asr_server_receive, asr_audio, client_have_voice,
                               client_voice_stop, nchat, chats, ttsVars>>
           ELSE IF text_len > 0 /\ music
           THEN /\ nchat < MaxChats
                /\ nchat' = rid
                /\ tts_start_speak_time' = now
                /\ sent' = SttMessages(rid) \o <<Msg("tts_start", rid)>>
                /\ IF outcome = "decode"
                   THEN \* lines 195-198 raise, 248-250, then 45-48
                        /\ tts_duration' = 0
                        /\ asr_server_receive' = TRUE
                        /\ asr_audio' = <<>>
                        /\ ResetVadStates
                        /\ pc' = "idle"
                        /\ asr_text' = NoText
                        /\ UNCHANGED scheduled_tasks
                   ELSE \* lines 204-210
                        /\ tts_duration' = dur
                        /\ scheduled_tasks' = Append(scheduled_tasks, sentence)
                        /\ pc' = "music"
                        /\ UNCHANGED <<asr_server_receive, asr_audio, asr_text,
                                       client_have_voice, client_voice_stop>>
                /\ UNCHANGED <<closed, chats, tts_first_text, tts_last_text,
                               llm_finish_task>>
           ELSE IF text_len > 0
           THEN /\ nchat < MaxChats
                /\ nchat' = rid
                /\ scheduled_tasks' = startToChat_tasks(scheduled_tasks, rid)
                /\ chats' = Append(chats, rid)
                /\ asr_audio' = <<>>
                /\ ResetVadStates
                /\ sent' = <<>>
                /\ pc' = "idle"
                /\ asr_text' = NoText
                /\ UNCHANGED <<asr_server_receive, closed, ttsVars>>
           ELSE /\ asr_server_receive' = TRUE
                /\ asr_audio' = <<>>
                /\ ResetVadStates
                /\ sent' = <<>>
                /\ pc' = "idle"
                /\ asr_text' = NoText
                /\ UNCHANGED <<scheduled_tasks, closed, nchat, chats, ttsVars>>
        /\ UNCHANGED <<now, cfgVars, client_abort, client_no_voice_last_time, utt,
                       respVars>>
        /\ UNCHANGED <<asrVars, musicVars, caibaoVars>>

(***************************************************************************)
(* send_music_file, lines 226-250, and handleAudioMessage, lines 45-48:    *)
(* the frames are sent; if no send raises the stop notification is         *)
(* scheduled at the cursor; the handler returns.                           *)
(***************************************************************************)
FinalizeMusicEnd(ok) ==
    /\ ~closed /\ pc = "music"
    /\ sent' = <<Msg("audio", nchat)>>
    /\ scheduled_tasks' =
          IF ok THEN Append(scheduled_tasks, NewTask("stop", nchat, tts_duration))
          ELSE scheduled_tasks
    /\ asr_server_receive' = TRUE
    /\ asr_audio' = <<>>
    /\ ResetVadStates
    /\ pc' = "idle"
    /\ asr_text' = NoText
    /\ UNCHANGED <<now, cfgVars, client_abort, client_no_voice_last_time, closed,
                   utt, nchat, chats, respVars, ttsVars>>
    /\ UNCHANGED <<asrVars, musicVars, caibaoVars>>

(***************************************************************************)
(* Manual mode: the client's listen messages set the voice flags.          *)
(***************************************************************************)
ClientListen(stop) ==
    /\ ~closed /\ pc = "idle"
    /\ client_listen_mode = "manual"
    /\ client_have_voice' = TRUE
    /\ client_voice_stop' = stop
    /\ sent' = <<>>
    /\ UNCHANGED <<now, cfgVars, asr_server_receive, client_abort, asr_audio,
                   client_no_voice_last_time, scheduled_tasks, closed, pc,
                   asr_text, utt, nchat, chats, respVars, ttsVars>>
    /\ UNCHANGED <<asrVars, musicVars, caibaoVars>>

(***************************************************************************)
(* conn.chat, run by conn.executor: the response is generated and its      *)
(* first and last segment texts are recorded.                              *)
(***************************************************************************)
ChatRespond(r) ==
    /\ ~closed
    /\ chats # <<>> /\ resp = <<>> /\ send_pc = "none"
    /\ cur' = Head(chats)
    /\ chats' = Tail(chats)
    /\ resp' = r
    /\ resp_played' = 0
    /\ tts_first_text' = r[1].text
    /\ tts_last_text' = r[Len(r)].text
    /\ llm_finish_task' = TRUE
    /\ sent' = <<>>
    /\ UNCHANGED <<now, cfgVars, asr_server_receive, client_have_voice,
                   client_voice_stop, client_abort, asr_audio,
                   client_no_voice_last_time, scheduled_tasks, closed, pc,
                   asr_text, utt, nchat, send_pc, tts_duration,
                   tts_start_speak_time>>
    /\ UNCHANGED <<asrVars, musicVars, caibaoVars>>

(***************************************************************************)
(* sendAudioMessage, lines 94-113: the sentence_start notification is      *)
(* scheduled at the cursor, the cursor advances, the packets are sent.     *)
(***************************************************************************)
SendAudioBegin ==
    LET seg == Head(resp)
        base_delay == tts_duration
    IN  /\ ~closed /\ pc # "asr"
        /\ resp # <<>> /\ send_pc = "none"
        /\ tts_start_speak_time' =
              IF seg.text = tts_first_text THEN now ELSE tts_start_speak_time
        /\ scheduled_tasks' =
              Append(scheduled_tasks, NewTask("sentence_start", cur, base_delay))
        /\ tts_duration' = tts_duration + seg.dur
        /\ resp_played' = resp_played + seg.dur
        /\ sent' = <<Msg("audio", cur)>>
        /\ send_pc' = "sending"
        /\ UNCHANGED <<now, cfgVars, asr_server_receive, client_have_voice,
                       client_voice_stop, client_abort, asr_audio,
                       client_no_voice_last_time, closed, pc, asr_text, utt, nchat,
                       chats, cur, resp, tts_first_text, tts_last_text,
                       llm_finish_task>>
        /\ UNCHANGED <<asrVars, musicVars, caibaoVars>>

\* line 117
StopDuration == tts_duration - (now - tts_start_speak_time)

(***************************************************************************)
(* sendAudioMessage, lines 116-128: after the last segment the stop        *)
(* notification and, on a farewell, the termination are scheduled.         *)
(***************************************************************************)
SendAudioEnd ==
    LET seg == Head(resp)
        stop_duration == StopDuration
        stop_task == NewTask("stop", cur, stop_duration)
        finish_task == NewTask("finish", cur, stop_duration)
    IN  /\ ~closed /\ pc # "asr"
        /\ send_pc = "sending"
        /\ scheduled_tasks' =
              IF llm_finish_task /\ seg.text = tts_last_text
              THEN IF isLLMWantToFinish(tts_first_text, tts_last_text)
                   THEN Append(Append(scheduled_tasks, stop_task), finish_task)
                   ELSE Append(scheduled_tasks, stop_task)
              ELSE scheduled_tasks
        /\ resp' = Tail(resp)
        /\ send_pc' = "none"
        /\ sent' = <<>>
        /\ UNCHANGED <<now, cfgVars, asr_server_receive, client_have_voice,
                       client_voice_stop, client_abort, asr_audio,
                       client_no_voice_last_time, closed, pc, asr_text, utt,
                       nchat, chats, cur, resp_played, ttsVars>>
        /\ UNCHANGED <<asrVars, musicVars, caibaoVars>>

(***************************************************************************)
(* A notification wakes from its sleep and runs its coroutine, one         *)
(* websocket.send at a time (schedule_with_interrupt, lines 170-171).      *)
(***************************************************************************)
TaskStep(i) ==
    LET t == scheduled_tasks[i]
        msgs == TaskMessages(t.kind)
        last == t.prog + 1 >= Len(msgs)
        t2 == [t EXCEPT !.prog = IF Len(msgs) = 0 THEN 0 ELSE t.prog + 1,
                        !.st = IF last THEN "done" ELSE "running"]
    IN  /\ ~closed /\ pc # "asr"
        /\ CanFire(i) \/ t.st = "running"
        /\ sent' = IF Len(msgs) = 0 THEN <<>>
                   ELSE <<Msg(msgs[t.prog + 1], t.rid)>>
        /\ IF t.kind = "finish"
           THEN /\ closed' = TRUE
                /\ scheduled_tasks' =
                      CancelAllTasks([scheduled_tasks EXCEPT ![i] = t2])
                /\ UNCHANGED <<asr_server_receive, tts_duration>>
           ELSE /\ scheduled_tasks' = [scheduled_tasks EXCEPT ![i] = t2]
                /\ IF t.kind = "stop"
                   THEN clearSpeakStatus   \* send_tts_message, line 143
                   ELSE UNCHANGED <<asr_server_receive, tts_duration>>
                /\ UNCHANGED closed
        /\ UNCHANGED <<now, cfgVars, client_have_voice, client_voice_stop,
                       client_abort, asr_audio, client_no_voice_last_time, pc,
                       asr_text, utt, nchat, chats, respVars, tts_start_speak_time,
                       tts_first_text, tts_last_text, llm_finish_task>>
        /\ UNCHANGED <<asrVars, musicVars, caibaoVars>>

(***************************************************************************)
(* The client interrupts (barge-in): every outstanding notification is     *)
(* cancelled and the rest of the response is dropped; a sendAudioMessage   *)
(* that is sending packets is no scheduled task and runs to its end.       *)
(***************************************************************************)
CancelAll ==
    /\ ~closed
    /\ \E i \in DOMAIN scheduled_tasks : scheduled_tasks[i].st \in {"sleeping", "running"}
    /\ scheduled_tasks' = CancelAllTasks(scheduled_tasks)
    /\ client_abort' = TRUE
    /\ resp' = IF send_pc = "sending" THEN <<Head(resp)>> ELSE <<>>
    /\ chats' = <<>>
    /\ sent' = <<>>
    /\ UNCHANGED <<now, cfgVars, asr_server_receive, client_have_voice,
                   client_voice_stop, asr_audio, client_no_voice_last_time, closed,
                   pc, asr_text, utt, nchat, cur, send_pc, resp_played, ttsVars>>
    /\ UNCHANGED <<asrVars, musicVars, caibaoVars>>

MusicOutcomes == {"ok", "decode", "send"}

(***************************************************************************)
(* Spec: one session, from construction.  Responses have one segment.      *)
(***************************************************************************)
Next ==
    \/ Tick
    \/ FrameIgnored
    \/ \E v \in BOOLEAN : FrameSilent(v)
    \/ \E v \in BOOLEAN, st \in BOOLEAN, text \in Transcripts \cup {NoText} :
           FrameVoiced(v, st, text)
    \/ FinalizeRaise
    \/ \E mf \in BOOLEAN, o \in MusicOutcomes, d \in SegDurations :
           FinalizeText(mf, o, d)
    \/ \E ok \in BOOLEAN : FinalizeMusicEnd(ok)
    \/ \E st \in BOOLEAN : ClientListen(st)
    \/ \E r \in ShortResponses : ChatRespond(r)
    \/ SendAudioBegin
    \/ SendAudioEnd
    \/ \E i \in DOMAIN scheduled_tasks : TaskStep(i)

Spec == Init /\ [][Next]_vars

(***************************************************************************)
(* SpecResp: the delivery of one response, from the state startToChat      *)
(* leaves behind (handleAudioMessage line 49): the stt notification is     *)
(* scheduled, the chat request is queued, intake is gated.                 *)
(***************************************************************************)
InitResp ==
    /\ now = 1
    /\ client_listen_mode = "auto"
    /\ max_cmd_length = MaxCmdLen
    /\ asr_server_receive = FALSE
    /\ client_have_voice = FALSE
    /\ client_voice_stop = FALSE
    /\ client_abort = FALSE
    /\ asr_audio = <<>>
    /\ client_no_voice_last_time = 0
    /\ scheduled_tasks = <<[kind |-> "stt", rid |-> 1, delay |-> 0, at |-> 1,
                            due |-> 1, st |-> "sleeping", prog |-> 0]>>
    /\ closed = FALSE
    /\ sent = <<>>
    /\ pc = "idle"
    /\ asr_text = NoText
    /\ utt = 2
    /\ nchat = 1
    /\ chats = <<1>>
    /\ cur = 0
    /\ resp = <<>>
    /\ send_pc = "none"
    /\ resp_played = 0
    /\ tts_duration = 0
    /\ tts_start_speak_time = 0
    /\ tts_first_text = NoText
    /\ tts_last_text = NoText
    /\ llm_finish_task = FALSE
    /\ ASRIdle
    /\ MusicIdle
    /\ CaibaoIdle

NextResp ==
    \/ Tick
    \/ \E r \in Responses : ChatRespond(r)
    \/ SendAudioBegin
    \/ SendAudioEnd
    \/ \E i \in DOMAIN scheduled_tasks : TaskStep(i)
    \/ CancelAll

SpecResp == InitResp /\ [][NextResp]_vars

(***************************************************************************)
(* SpecPlaying: the session from the state a first music playback leaves   *)
(* behind (handleAudioMessage line 48 after check_and_play_music): the     *)
(* sentence_start and stop notifications of the playback are scheduled,    *)
(* the cursor is the length of the asset, intake is open again.            *)
(***************************************************************************)
InitPlaying ==
    /\ now = 1
    /\ client_listen_mode \in {"auto", "manual"}
    /\ max_cmd_length = MaxCmdLen
    /\ asr_server_receive = TRUE
    /\ client_have_voice = FALSE
    /\ client_voice_stop = FALSE
    /\ client_abort = FALSE
    /\ asr_audio = <<>>
    /\ client_no_voice_last_time = 0
    /\ \E d \in SegDurations :
          /\ tts_duration = d
          /\ scheduled_tasks =
                <<[kind |-> "sentence_start", rid |-> 1, delay |-> 0, at |-> 1,
                   due |-> 1, st |-> "sleeping", prog |-> 0],
                  [kind |-> "stop", rid |-> 1, delay |-> d, at |-> 1,
                   due |-> 1 + d, st |-> "sleeping", prog |-> 0]>>
    /\ closed = FALSE
    /\ sent = <<Msg("audio", 1)>>
    /\ pc = "idle"
    /\ asr_text = NoText
    /\ utt = 1
    /\ nchat = 1
    /\ chats = <<>>
    /\ cur = 0
    /\ resp = <<>>
    /\ send_pc = "none"
    /\ resp_played = 0
    /\ tts_start_speak_time = 1
    /\ tts_first_text = NoText
    /\ tts_last_text = NoText
    /\ llm_finish_task = FALSE
    /\ ASRIdle
    /\ MusicIdle
    /\ CaibaoIdle

SpecPlaying == InitPlaying /\ [][Next]_vars

(***************************************************************************)
(* ASRService (core/utils/asr.py): incremental transcription.              *)
(* Defaults of __init__ (line 206) and the frame length (line 215).        *)
(***************************************************************************)
silent_threshold == 300   \* ms
frame_duration == 30      \* ms
audio_head == 1           \* s
max_duration == 10        \* s
max_retries == 3
retry_delay == 1           \* s

MaxChunks == 4            \* slices the generator yields at most
MaxChunkFrames == 4       \* complete frames prepare_frame cuts from a slice

\* transcriptions the backend may return
ASRTexts == {<<"q">>, <<"x">>}

\* the session while only a transcription run or a playback loop is studied
SessionIdle ==
    /\ now = 1
    /\ client_listen_mode = "auto"
    /\ max_cmd_length = MaxCmdLen
    /\ asr_server_receive = FALSE
    /\ client_have_voice = FALSE
    /\ client_voice_stop = FALSE
    /\ client_abort = FALSE
    /\ asr_audio = <<>>
    /\ client_no_voice_last_time = 0
    /\ scheduled_tasks = <<>>
    /\ closed = FALSE
    /\ sent = <<>>
    /\ pc = "idle"
    /\ asr_text = NoText
    /\ utt = 1
    /\ nchat = 0
    /\ chats = <<>>
    /\ cur = 0
    /\ resp = <<>>
    /\ send_pc = "none"
    /\ resp_played = 0
    /\ tts_duration = 0
    /\ tts_start_speak_time = 0
    /\ tts_first_text = NoText
    /\ tts_last_text = NoText
    /\ llm_finish_task = FALSE

\* ASRService.__init__ and the entry of process_audio (lines 335-337)
InitASR ==
    /\ apc = "loop"
    /\ elapsed = 0
    /\ use_http \in BOOLEAN
    /\ self_text = <<>>
    /\ is_in_silence = FALSE
    /\ silent_duration = 0
    /\ chunks_processed = 0
    /\ frames_left = 0
    /\ retry = 0
    /\ silent_run = 0
    /\ last_upload = [value |-> <<>>, why |-> "none", err |-> "none"]
    /\ result = [how |-> "none", value |-> <<>>]
    /\ SessionIdle
    /\ MusicIdle
    /\ CaibaoIdle

Return(how, value) ==
    /\ apc' = "done"
    /\ result' = [how |-> how, value |-> value]

\* lines 341-355: the next slice is taken from the generator; the generator
\* sleeps between slices (line 202), dt seconds pass.  Slices of the head
\* window and slices without a complete frame are not examined.
\* lines 348-349: `if time.time() - start_time <= self.audio_head: continue`
InHeadWindow_never(t) == FALSE

InHeadWindow(t) == t <= audio_head

NextChunk(n, dt) ==
    /\ apc = "loop"
    /\ elapsed <= max_duration
    /\ chunks_processed < MaxChunks
    /\ elapsed' = elapsed + dt
    /\ chunks_processed' = chunks_processed + 1
    /\ IF InHeadWindow(elapsed') \/ n = 0
       THEN /\ frames_left' = 0
            /\ apc' = "loop"
       ELSE /\ frames_left' = n
            /\ apc' = "frames"
    /\ UNCHANGED <<use_http, self_text, is_in_silence, silent_duration, retry,
                   silent_run, last_upload, result>>
    /\ UNCHANGED <<sessVars, musicVars, caibaoVars>>

\* lines 341-344 and 380-381: the generator is exhausted
GeneratorEnd ==
    /\ apc = "loop"
    /\ elapsed <= max_duration
    /\ Return("end", self_text)
    /\ UNCHANGED <<elapsed, use_http, self_text, is_in_silence, silent_duration,
                   chunks_processed, frames_left, retry, silent_run, last_upload>>
    /\ UNCHANGED <<sessVars, musicVars, caibaoVars>>

\* line 339: the loop condition fails, lines 380-381
LoopExpired ==
    /\ apc = "loop"
    /\ elapsed > max_duration
    /\ Return("expired", self_text)
    /\ UNCHANGED <<elapsed, use_http, self_text, is_in_silence, silent_duration,
                   chunks_processed, frames_left, retry, silent_run, last_upload>>
    /\ UNCHANGED <<sessVars, musicVars, caibaoVars>>

\* lines 376-378: handling the slice raises
ChunkError ==
    /\ apc = "loop"
    /\ elapsed <= max_duration
    /\ chunks_processed < MaxChunks
    /\ Return("error", self_text)
    /\ UNCHANGED <<elapsed, use_http, self_text, is_in_silence, silent_duration,
                   chunks_processed, frames_left, retry, silent_run, last_upload>>
    /\ UNCHANGED <<sessVars, musicVars, caibaoVars>>

\* lines 366 and 374: the silence count after a frame
NextSilentDuration_kept(silent, d) ==
    d + (IF silent THEN frame_duration ELSE 0)

NextSilentDuration(silent, d) ==
    IF silent THEN d + frame_duration ELSE 0

\* lines 366-369 and the end of the frame loop: the silent frame is counted;
\* at the threshold the transcript t is returned
SilentFrameCounted(t) ==
    /\ silent_duration' = NextSilentDuration(TRUE, silent_duration)
    /\ IF silent_duration' >= silent_threshold
       THEN /\ Return("silence", t)
            /\ UNCHANGED frames_left
       ELSE /\ frames_left' = frames_left - 1
            /\ apc' = IF frames_left' = 0 THEN "loop" ELSE "frames"
            /\ UNCHANGED result

\* line 362: a silent frame starts an upload `if not self.is_in_silence`
StartsUpload_every(in_silence) == TRUE

StartsUpload(in_silence) == ~in_silence

\* lines 358-374: one frame is examined
Frame(silent) ==
    /\ apc = "frames"
    /\ frames_left > 0
    /\ IF silent
       THEN /\ silent_run' = silent_run + 1
            /\ IF StartsUpload(is_in_silence)
               THEN \* lines 362-365: the upload starts
                    /\ is_in_silence' = TRUE
                    /\ apc' = "upload"
                    /\ retry' = 0
                    /\ UNCHANGED <<silent_duration, frames_left, result>>
               ELSE /\ SilentFrameCounted(self_text)
                    /\ UNCHANGED <<is_in_silence, retry>>
       ELSE /\ silent_run' = 0
            /\ is_in_silence' = FALSE
            /\ silent_duration' = NextSilentDuration(FALSE, silent_duration)
            /\ frames_left' = frames_left - 1
            /\ apc' = IF frames_left' = 0 THEN "loop" ELSE "frames"
            /\ UNCHANGED <<retry, result>>
    /\ UNCHANGED <<elapsed, use_http, self_text, chunks_processed, last_upload>>
    /\ UNCHANGED <<sessVars, musicVars, caibaoVars>>

(***************************************************************************)
(* upload, lines 259-328: what one attempt (one pass of the retry loop)    *)
(* meets.                                                                  *)
(*   "ok"        status 200 with a transcription                           *)
(*   "empty"     status 200 without a transcription                        *)
(*   "badjson"   status 200, the body is not JSON                          *)
(*   "non200"    another status                                            *)
(*   "transport" timeout, connection error, client error                   *)
(*   "ssl"       ClientSSLError, or ClientConnectorError naming SSL        *)
(*   "export"    audio.export raises, before the first attempt             *)
(***************************************************************************)
AttemptOutcomes == {"ok", "empty", "badjson", "non200", "transport", "ssl", "export"}

\* does the attempt end the upload, and with what?
UploadReturns(outcome) ==
    \/ outcome \in {"ok", "empty", "badjson", "export"}
    \/ retry >= max_retries - 1

\* line 365 after upload returned `value`: self.text is assigned, then the
\* frame is counted
UploadFinish(value, why) ==
    /\ self_text' = value
    /\ last_upload' = [value |-> value, why |-> why, err |-> "none"]
    /\ SilentFrameCounted(value)
    /\ UNCHANGED retry

\* lines 307-317: with use_http an SSL error downgrades the URL and goes
\* on to the next attempt with `continue`, past the sleep of lines 324-325
BackoffSkipped_always(outcome) == TRUE

BackoffSkipped(outcome) == outcome = "ssl" /\ use_http

UploadAttempt(outcome, t) ==
    /\ apc = "upload"
    /\ elapsed <= max_duration
    /\ outcome = "export" => retry = 0
    /\ IF outcome = "ok"
       THEN UploadFinish(t, "ok")
       ELSE /\ t = NoText
            /\ IF UploadReturns(outcome)
               THEN UploadFinish(NoText,
                        IF outcome \in {"transport", "ssl"} THEN "exhausted"
                        ELSE outcome)
               ELSE \* lines 286-288, 324-325, and 310, 317 without a sleep
                    /\ retry' = retry + 1
                    /\ apc' = IF BackoffSkipped(outcome) THEN "upload" ELSE "backoff"
                    /\ last_upload' = [last_upload EXCEPT !.err = outcome]
                    /\ UNCHANGED <<self_text, silent_duration, frames_left, result>>
    /\ UNCHANGED <<elapsed, use_http, is_in_silence, chunks_processed, silent_run>>
    /\ UNCHANGED <<sessVars, musicVars, caibaoVars>>

\* a second passes while upload awaits the backend
UploadWait ==
    /\ apc = "upload"
    /\ elapsed < max_duration
    /\ elapsed' = elapsed + 1
    /\ UNCHANGED <<apc, use_http, self_text, is_in_silence, silent_duration,
                   chunks_processed, frames_left, retry, silent_run, last_upload,
                   result>>
    /\ UNCHANGED <<sessVars, musicVars, caibaoVars>>

\* lines 287, 325: asyncio.sleep(self.retry_delay) before the next attempt
Backoff ==
    /\ apc = "backoff"
    /\ elapsed < max_duration
    /\ elapsed' = elapsed + retry_delay
    /\ apc' = "upload"
    /\ UNCHANGED <<use_http, self_text, is_in_silence, silent_duration,
                   chunks_processed, frames_left, retry, silent_run, last_upload,
                   result>>
    /\ UNCHANGED <<sessVars, musicVars, caibaoVars>>

\* get_transcription, lines 253-255: what is returned on TimeoutError
get_transcription_on_timeout_none(t) == NoText

get_transcription_on_timeout(t) == t

\* lines 252-255: wait_for cancels process_audio, which is suspended in
\* upload; CancelledError leaves upload and process_audio, line 365 does not
\* assign
Timeout ==
    /\ apc \in {"upload", "backoff"}
    /\ elapsed >= max_duration
    /\ Return("timeout", get_transcription_on_timeout(self_text))
    /\ UNCHANGED <<elapsed, use_http, self_text, is_in_silence, silent_duration,
                   chunks_processed, frames_left, retry, silent_run, last_upload>>
    /\ UNCHANGED <<sessVars, musicVars, caibaoVars>>

NextASR ==
    \/ \E n \in 0..MaxChunkFrames, dt \in {0, 1} : NextChunk(n, dt)
    \/ GeneratorEnd
    \/ LoopExpired
    \/ ChunkError
    \/ \E silent \in BOOLEAN : Frame(silent)
    \/ \E o \in AttemptOutcomes, t \in ASRTexts \cup {NoText} : UploadAttempt(o, t)
    \/ UploadWait
    \/ Backoff
    \/ Timeout

SpecASR == InitASR /\ [][NextASR]_vars

(***************************************************************************)
(* send_music_file, lines 221-239: the resampled PCM is cut into frames,   *)
(* each frame is encoded and sent.  A frame is recorded by the number of   *)
(* bytes it takes from raw_data and the number of zero bytes added.        *)
(***************************************************************************)
music_frame_duration == 60                                \* ms, line 222
frame_size == (16000 * music_frame_duration) \div 1000    \* samples, line 223
frame_bytes == frame_size * 2                             \* 16 bit, line 226

MaxMusicFrames == 3       \* whole frames of the short assets

\* bytes beyond the last whole frame
MusicTails == {0, 2, frame_size, frame_bytes - 2}

\* raw_data of an asset of 2500 ms: 16000 samples of 2 bytes per second
Asset2500ms == (2500 * 16000 * 2) \div 1000

MusicLengths ==
    {n * frame_bytes + r : n \in 0..MaxMusicFrames, r \in MusicTails}
        \cup {Asset2500ms}

InitMusic ==
    /\ mpc = "loop"
    /\ raw_len \in MusicLengths
    /\ offset = 0
    /\ encoded = <<>>
    /\ packets = 0
    /\ SessionIdle
    /\ ASRIdle
    /\ CaibaoIdle

\* line 228: len(raw_data[i:i + frame_size * 2])
ChunkLen(i) ==
    IF raw_len - i < frame_bytes THEN raw_len - i ELSE frame_bytes

\* lines 231-232: the frame after padding
chunk_unpadded(n) == [data |-> n, zeros |-> 0]

chunk_padded(n) ==
    [data |-> n, zeros |-> IF n < frame_bytes THEN frame_bytes - n ELSE 0]

\* lines 226-239: one pass of the loop
MusicFrame ==
    /\ mpc = "loop"
    /\ offset < raw_len
    /\ encoded' = Append(encoded, chunk_padded(ChunkLen(offset)))
    /\ packets' = packets + 1
    /\ offset' = offset + frame_bytes
    /\ UNCHANGED <<mpc, raw_len>>
    /\ UNCHANGED <<sessVars, asrVars, caibaoVars>>

\* lines 248-250: the except clause of send_music_file; r is the flag before
send_music_file_except_keeps(r) == r

send_music_file_except(r) == TRUE

\* lines 238-239 raise (the encoder or the transport fails), lines 248-250
MusicFrameFails ==
    /\ mpc = "loop"
    /\ offset < raw_len
    /\ encoded' = Append(encoded, chunk_padded(ChunkLen(offset)))
    /\ mpc' = "failed"
    /\ asr_server_receive' = send_music_file_except(asr_server_receive)
    /\ UNCHANGED <<raw_len, offset, packets>>
    /\ UNCHANGED <<now, cfgVars, client_have_voice, client_voice_stop,
                   client_abort, asr_audio, client_no_voice_last_time,
                   scheduled_tasks, closed, sent, pc, asr_text, utt, nchat, chats,
                   respVars, ttsVars>>
    /\ UNCHANGED <<asrVars, caibaoVars>>

\* lines 192-219 raise before the first frame (the tts start message cannot
\* be sent, the asset cannot be decoded, the encoder cannot be created),
\* lines 248-250
MusicSetupFails ==
    /\ mpc = "loop"
    /\ offset = 0
    /\ mpc' = "failed"
    /\ asr_server_receive' = send_music_file_except(asr_server_receive)
    /\ UNCHANGED <<raw_len, offset, encoded, packets>>
    /\ UNCHANGED <<now, cfgVars, client_have_voice, client_voice_stop,
                   client_abort, asr_audio, client_no_voice_last_time,
                   scheduled_tasks, closed, sent, pc, asr_text, utt, nchat, chats,
                   respVars, ttsVars>>
    /\ UNCHANGED <<asrVars, caibaoVars>>

\* line 226: range(0, len(raw_data), frame_size * 2) is exhausted
MusicLoopEnd ==
    /\ mpc = "loop"
    /\ offset >= raw_len
    /\ mpc' = "done"
    /\ UNCHANGED <<raw_len, offset, encoded, packets>>
    /\ UNCHANGED <<sessVars, asrVars, caibaoVars>>

NextMusic ==
    \/ MusicFrame
    \/ MusicFrameFails
    \/ MusicSetupFails
    \/ MusicLoopEnd

SpecMusic == InitMusic /\ [][NextMusic]_vars

(***************************************************************************)
(* TTSProvider.text_to_speak and wait_for_completion (caibao.py).  Times   *)
(* are in tenths of a second.                                              *)
(***************************************************************************)
timeout == 3000           \* wait_for_completion: timeout = 300 s
interval == 3             \* wait_for_completion: interval = 0.3 s
MaxPollTime == 2          \* one get_task_detail takes at most this long

\* the clock of the model stops here; wait_for_completion never gets so far
WaitCap == timeout + 3 * (interval + MaxPollTime)

(***************************************************************************)
(* What one get_task_detail delivers (lines 137-162):                      *)
(*   "done_url"    task_status 1 with an audio_url                         *)
(*   "done_nourl"  task_status 1 without audio_url                         *)
(*   "failed"      task_status 2                                           *)
(*   "processing"  task_status 3                                           *)
(*   "unknown"     another task_status                                     *)
(*   "error"       result["error"] != 0                                    *)
(*   "http"        get_task_detail raises (lines 122-125)                  *)
(***************************************************************************)
PollOutcomes ==
    {"done_url", "done_nourl", "failed", "processing", "unknown", "error", "http"}

InitCaibao ==
    /\ cpc = "create"
    /\ wait_elapsed = 0
    /\ task_status = "none"
    /\ wait_outcome = "none"
    /\ file_exists \in BOOLEAN
    /\ SessionIdle
    /\ ASRIdle
    /\ MusicIdle

\* text_to_speak, lines 67-72: the exception is logged, not raised again,
\* and the output file is removed if it exists
TextToSpeakFails ==
    /\ file_exists' = FALSE
    /\ cpc' = "done"

\* lines 37-43: create_task
CreateTask(o) ==
    /\ cpc = "create"
    /\ IF o = "ok"
       THEN /\ cpc' = "top"
            /\ UNCHANGED file_exists
       ELSE TextToSpeakFails
    /\ UNCHANGED <<wait_elapsed, task_status, wait_outcome>>
    /\ UNCHANGED <<sessVars, asrVars, musicVars>>

\* line 131: `if time.time() - start_time > timeout`
DeadlinePassed_never(e) == FALSE

DeadlinePassed(e) == e > timeout

\* lines 130-134: the top of the polling loop
LoopTop ==
    /\ cpc = "top"
    /\ IF DeadlinePassed(wait_elapsed)
       THEN /\ wait_outcome' = "timeout"
            /\ TextToSpeakFails
       ELSE /\ cpc' = "poll"
            /\ UNCHANGED <<wait_outcome, file_exists>>
    /\ UNCHANGED <<wait_elapsed, task_status>>
    /\ UNCHANGED <<sessVars, asrVars, musicVars>>

\* lines 146-152
Completed(o) == o = "done_url"

\* lines 157-162
KeepsPolling(o) == o \in {"processing", "unknown"}

\* lines 136-167: one get_task_detail, taking dt, and the status it delivers
Poll(o, dt) ==
    /\ cpc = "poll"
    /\ wait_elapsed + dt <= WaitCap
    /\ wait_elapsed' = wait_elapsed + dt
    /\ task_status' = o
    /\ IF Completed(o)
       THEN /\ wait_outcome' = "returned"
            /\ cpc' = "download"
            /\ UNCHANGED file_exists
       ELSE IF KeepsPolling(o)
       THEN /\ cpc' = "sleep"
            /\ UNCHANGED <<wait_outcome, file_exists>>
       ELSE /\ wait_outcome' = "raised"
            /\ TextToSpeakFails
    /\ UNCHANGED <<sessVars, asrVars, musicVars>>

\* line 169: time.sleep(interval)
Sleep ==
    /\ cpc = "sleep"
    /\ wait_elapsed + interval <= WaitCap
    /\ wait_elapsed' = wait_elapsed + interval
    /\ cpc' = "top"
    /\ UNCHANGED <<task_status, wait_outcome, file_exists>>
    /\ UNCHANGED <<sessVars, asrVars, musicVars>>

\* lines 57-64: the audio is downloaded and written; "write": the file has
\* been opened when the write raises
Download(o) ==
    /\ cpc = "download"
    /\ IF o = "ok"
       THEN /\ file_exists' = TRUE
            /\ cpc' = "done"
       ELSE TextToSpeakFails
    /\ UNCHANGED <<wait_elapsed, task_status, wait_outcome>>
    /\ UNCHANGED <<sessVars, asrVars, musicVars>>

NextCaibao ==
    \/ \E o \in {"ok", "error", "raise"} : CreateTask(o)
    \/ LoopTop
    \/ \E o \in PollOutcomes, dt \in 0..MaxPollTime : Poll(o, dt)
    \/ Sleep
    \/ \E o \in {"ok", "non200", "write"} : Download(o)

\* the calls are sequential code: every step that can be taken is taken
SpecCaibao == InitCaibao /\ [][NextCaibao]_vars /\ WF_vars(NextCaibao)

(***************************************************************************)
(* Properties of the session (Spec) and of the delivery (SpecResp).        *)
(***************************************************************************)

\* a finalize attempt ends: handleAudioMessage returns or raises
FinalizeOver == pc # "idle" /\ pc' = "idle"

\* C1: once a finalize attempt is over, whatever its outcome, the
\* receive-gating flag asr_server_receive is true again.
C1_ReceiveRestoredAfterFinalize ==
    [][FinalizeOver => asr_server_receive']_vars

\* C2: the utterance buffer conn.asr_audio is empty after every finalize
\* attempt, successful or not.
C2_BufferEmptyAfterFinalize ==
    [][FinalizeOver => asr_audio' = <<>>]_vars

ExitPhrases == {cmd_exit[k] : k \in DOMAIN cmd_exit}

\* C3 as stated: a finalize attempt that obtained a transcript closes the
\* session if and only if the punctuation-stripped transcript is exactly one
\* of the exit phrases.
C3_ExitIffExactMatch ==
    [][(FinalizeOver /\ asr_text # NoText)
          => (closed' <=> StripPunct(asr_text) \in ExitPhrases)]_vars

\* C3 amended: the session is closed if and only if the stripped transcript
\* is exactly one of the exit phrases and is no longer than max_cmd_length;
\* on a match no message is sent, no notification is scheduled and no
\* response is requested.
C3_ExitIffExactMatchWithinLength ==
    [][(FinalizeOver /\ asr_text # NoText)
          => /\ closed' <=> /\ StripPunct(asr_text) \in ExitPhrases
                            /\ Len(StripPunct(asr_text)) <= max_cmd_length
             /\ closed' => /\ sent' = <<>>
                           /\ Len(scheduled_tasks') = Len(scheduled_tasks)
                           /\ chats' = chats
                           /\ nchat' = nchat]_vars

\* C3 witness: the session was closed by an exit command (no termination
\* notification exists that could have closed it)
C3_Witness ==
    /\ closed
    /\ utt = 2
    /\ ~ \E i \in DOMAIN scheduled_tasks : scheduled_tasks[i].kind = "finish"

\* the stt notifications startToChat created after the idle limit of the
\* running no-voice timer had passed: the farewells of this idle period
IdleFarewells ==
    {i \in DOMAIN scheduled_tasks :
        /\ scheduled_tasks[i].kind = "stt"
        /\ scheduled_tasks[i].at * 1000 - client_no_voice_last_time
              > 1000 * close_connection_no_voice_time}

\* C9: within one idle period (the no-voice timer is running and no voice has
\* reset it) the synthetic farewell is started at most once.
C9_FarewellOncePerIdlePeriod ==
    client_no_voice_last_time # 0 => Cardinality(IdleFarewells) <= 1

\* tasks of response rid of a kind
TasksOf(rid, kind) ==
    {i \in DOMAIN scheduled_tasks :
        scheduled_tasks[i].rid = rid /\ scheduled_tasks[i].kind = kind}

Fires(i) ==
    /\ scheduled_tasks[i].st = "sleeping"
    /\ scheduled_tasks'[i].st \in {"running", "done"}

\* C4: the termination is scheduled with the delay of the stop notification
\* and, when it fires, no sentence_start notification of its response is
\* still waiting to fire and the stop notification has fired.
C4_TerminationAfterAllNotifications ==
    [][\A i \in DOMAIN scheduled_tasks :
          scheduled_tasks[i].kind = "finish" =>
             /\ \E j \in TasksOf(scheduled_tasks[i].rid, "stop") :
                   scheduled_tasks[j].delay = scheduled_tasks[i].delay
             /\ Fires(i) =>
                   /\ \A j \in TasksOf(scheduled_tasks[i].rid, "sentence_start") :
                         scheduled_tasks[j].st # "sleeping"
                   /\ \A j \in TasksOf(scheduled_tasks[i].rid, "stop") :
                         scheduled_tasks[j].st # "sleeping"]_vars

Outstanding(t) == t.st \in {"sleeping", "running"}

\* the notifications whose action has been delivered, at least in part
Delivered(tasks) == {i \in DOMAIN tasks : tasks[i].prog > 0 \/ tasks[i].st = "done"}

\* a step that cancels an outstanding notification
CancelStep ==
    \E i \in DOMAIN scheduled_tasks :
        Outstanding(scheduled_tasks[i]) /\ scheduled_tasks'[i].st = "cancelled"

\* C5: when the outstanding notifications are cancelled, every one of them is
\* cancelled and none delivers anything in that step, and a cancelled
\* notification never runs afterwards: the notifications delivered are the
\* K that had fired before.
C5_CancelledNeverDelivered ==
    [][/\ CancelStep =>
            /\ \A i \in DOMAIN scheduled_tasks :
                  /\ ~Outstanding(scheduled_tasks'[i])
                  /\ scheduled_tasks'[i].prog = scheduled_tasks[i].prog
            /\ Delivered(scheduled_tasks') \cap DOMAIN scheduled_tasks
                  = Delivered(scheduled_tasks) \cup
                       {i \in DOMAIN scheduled_tasks :
                           scheduled_tasks'[i].kind = "finish"
                           /\ scheduled_tasks'[i].st = "done"}
       /\ \A i \in DOMAIN scheduled_tasks :
             scheduled_tasks[i].st = "cancelled" =>
                scheduled_tasks'[i] = scheduled_tasks[i]]_vars

\* C5 witness: a bulk cancel after some notifications had fired and before
\* others had
C5_Witness ==
    /\ client_abort
    /\ \E i, j \in DOMAIN scheduled_tasks :
          /\ scheduled_tasks[i].st = "done"
          /\ scheduled_tasks[j].st = "cancelled" /\ scheduled_tasks[j].prog = 0

(***************************************************************************)
(* Properties of the incremental transcription (SpecASR).                  *)
(***************************************************************************)

\* the number of consecutive silent frames the threshold amounts to
SilentFramesNeeded ==
    (silent_threshold + frame_duration - 1) \div frame_duration

\* C6: process_audio returns on silence only when the frames examined last
\* are at least silent_threshold / frame_duration (10) silent frames with no
\* voiced frame among them; a voiced frame sets the silence count to zero.
C6_SilenceReturnNeedsFullRun ==
    /\ result.how = "silence" => silent_run >= SilentFramesNeeded
    /\ silent_run = 0 => silent_duration = 0

\* C6 witness: a silence-threshold return, with a transcription, at the tenth
\* silent frame in a row
C6_Witness ==
    /\ result.how = "silence"
    /\ result.value \in ASRTexts
    /\ silent_run = SilentFramesNeeded

\* C7: when the overall timeout expires while an upload is in progress, the
\* call returns what the most recent completed upload returned (the initial
\* empty text if none completed), and self.text is that value too.
C7_TimeoutReturnsLastCompletedUpload ==
    result.how = "timeout" =>
        /\ result.value = last_upload.value
        /\ self_text = last_upload.value

\* C7 witness: the timeout interrupts a later upload after an earlier one
\* had returned a transcription
C7_Witness ==
    /\ result.how = "timeout"
    /\ last_upload.why = "ok"
    /\ result.value \in ASRTexts

\* an upload returns to process_audio
UploadCompletes ==
    /\ apc = "upload"
    /\ apc' \notin {"upload", "backoff"}
    /\ result'.how # "timeout"

\* C8: when an upload fails on max_retries consecutive transport failures,
\* max_retries requests were made and no more, nothing is raised, the
\* transcript of an earlier successful upload stays as it was, and
\* process_audio goes on with the frames that follow.
C8_FailedUploadKeepsTranscript ==
    [][(UploadCompletes /\ last_upload'.why = "exhausted")
          => /\ retry = max_retries - 1
             /\ self_text \in ASRTexts => self_text' = self_text
             /\ apc' \in {"frames", "loop"} \/ result'.how = "silence"]_vars

(***************************************************************************)
(* Properties of the playback encoder (SpecMusic).                         *)
(***************************************************************************)

CeilDiv(a, b) == (a + b - 1) \div b

\* C10: a playback that runs to its end sends exactly ceil(L / F) packets for
\* raw data of L bytes and F = 1920 (42 packets for 2500 ms); every frame
\* handed to the encoder has F bytes: the bytes of raw_data at its place,
\* followed by zeros where the last frame is short.
C10_PacketCountAndPadding ==
    /\ frame_bytes = 1920
    /\ \A k \in DOMAIN encoded :
          /\ encoded[k].data + encoded[k].zeros = frame_bytes
          /\ encoded[k].data = ChunkLen((k - 1) * frame_bytes)
          /\ encoded[k].data > 0
    /\ mpc = "done" =>
          /\ packets = CeilDiv(raw_len, frame_bytes)
          /\ Len(encoded) = packets
          /\ raw_len = Asset2500ms => packets = 42

\* C10 witness: the asset of 2500 ms has been sent: 42 packets, the last
\* frame padded with zeros
C10_Witness ==
    /\ mpc = "done"
    /\ raw_len = Asset2500ms
    /\ packets = 42
    /\ encoded[42].zeros > 0

\* C11: when send_music_file fails, before the first frame or at any frame,
\* it returns without raising and asr_server_receive is true afterwards.
C11_ReceiveRestoredAfterMusicFailure ==
    mpc = "failed" => asr_server_receive

\* C11 witness: the playback failed after some packets had been sent
C11_Witness ==
    /\ mpc = "failed"
    /\ packets > 0
    /\ asr_server_receive

(***************************************************************************)
(* Properties of the message order and of the notifications (Spec,         *)
(* SpecResp).                                                              *)
(***************************************************************************)

\* how often a step sends message m of response rid
TimesSent(out, m, rid) ==
    Cardinality({k \in DOMAIN out : out[k] = Msg(m, rid)})

DoneOf(rid, kind) ==
    {i \in TasksOf(rid, kind) : scheduled_tasks[i].st = "done"}

\* C12: for every response the messages reach the client in the order stt,
\* one tts start, the sentence_start messages, one tts stop: no step sends
\* the tts start of a response twice, a sentence_start or a stop is sent
\* only after the stt notification of the response has delivered its
\* messages, and no sentence_start is sent after the stop.
C12_MessageOrder ==
    [][/\ \A rid \in 1..MaxChats : TimesSent(sent', "tts_start", rid) <= 1
       /\ \A i \in DOMAIN scheduled_tasks :
             Fires(i) =>
                /\ scheduled_tasks[i].kind \in {"sentence_start", "stop"} =>
                      \A j \in TasksOf(scheduled_tasks[i].rid, "stt") :
                          scheduled_tasks[j].st = "done"
                /\ scheduled_tasks[i].kind = "sentence_start" =>
                      DoneOf(scheduled_tasks[i].rid, "stop") = {}]_vars

\* C13: a cancelled notification has sent all messages of its action or none
\* of them.
C13_CancelNeverPartial ==
    \A i \in DOMAIN scheduled_tasks :
        scheduled_tasks[i].st = "cancelled" =>
            scheduled_tasks[i].prog \in {0, Len(TaskMessages(scheduled_tasks[i].kind))}

FiredBefore(j, t) ==
    /\ scheduled_tasks[j].st \in {"running", "done"}
    /\ scheduled_tasks[j].due < t

\* C15: of two notifications of one response the one scheduled with the
\* smaller delay fires no later than the one scheduled with the larger
\* delay, whenever the two were scheduled: when a notification fires, no
\* notification of its response with a larger delay has fired at an earlier
\* time, and none with a smaller delay is still waiting.
C15_FiringFollowsDelayOrder ==
    [][\A i, j \in DOMAIN scheduled_tasks :
          (/\ scheduled_tasks[i].rid = scheduled_tasks[j].rid
           /\ scheduled_tasks[i].delay < scheduled_tasks[j].delay)
             => /\ Fires(i) => ~FiredBefore(j, now)
                /\ Fires(j) => scheduled_tasks[i].st # "sleeping"]_vars

\* the notifications of a kind a step creates
Created(kind) ==
    {i \in DOMAIN scheduled_tasks' :
        i \notin DOMAIN scheduled_tasks /\ scheduled_tasks'[i].kind = kind}

Max0(x) == IF x > 0 THEN x ELSE 0

\* C16: the stop notification is scheduled with the delay
\* max(0, cursor - elapsed), where cursor is tts_duration after the last
\* segment was added and elapsed is the time since tts_start_speak_time; the
\* delay is never negative.
C16_StopDelayClamped ==
    [][\A i \in Created("stop") :
          /\ scheduled_tasks'[i].delay
                = Max0(tts_duration' - (now' - tts_start_speak_time'))
          /\ scheduled_tasks'[i].delay >= 0]_vars

\* a step in which sendAudioMessage starts on a segment (lines 94-108)
SegmentStep == send_pc = "none" /\ send_pc' = "sending"

\* C17: for the k-th segment of a response sendAudioMessage schedules the
\* sentence_start with a delay equal to the sum of the durations of
\* segments 1..k-1 of the response, and advances the cursor by the duration
\* of the segment.
C17_SentenceStartAtSumOfDurations ==
    [][SegmentStep =>
          /\ \A i \in Created("sentence_start") :
                scheduled_tasks'[i].delay = resp_played
          /\ tts_duration' - tts_duration = resp_played' - resp_played]_vars

\* the sentence_start notifications of response rid after the step whose
\* sleep is not over yet (schedule_with_interrupt, line 170)
StillAsleep(rid) ==
    {i \in DOMAIN scheduled_tasks' :
        /\ scheduled_tasks'[i].rid = rid
        /\ scheduled_tasks'[i].kind = "sentence_start"
        /\ scheduled_tasks'[i].st = "sleeping"
        /\ scheduled_tasks'[i].due > now'}

\* C18: the sentence_start of a segment is delivered to the client before
\* the first audio packet of the segment: when audio of a response is sent,
\* no sentence_start of the response is still in its sleep.
C18_SentenceStartBeforeAudio ==
    [][\A rid \in 1..MaxChats :
          TimesSent(sent', "audio", rid) > 0 => StillAsleep(rid) = {}]_vars

\* a step of sendAudioMessage, or of check_and_play_music and
\* send_music_file inside the finalize of handleAudioMessage
AudioHandlingStep == pc \in {"asr", "music"} \/ send_pc' # send_pc

\* C19: the playback cursor tts_duration never decreases: no step of
\* sendAudioMessage, send_music_file or check_and_play_music lowers it.
C19_CursorNeverLowered ==
    [][AudioHandlingStep => tts_duration' >= tts_duration]_vars

\* C20: conn.scheduled_tasks holds only notifications that have not fired
\* yet: a notification that has fired is no longer in the list.
C20_FiredNotificationsRemoved ==
    \A i \in DOMAIN scheduled_tasks : scheduled_tasks[i].st # "done"

\* the notifications whose coroutine sends protocol messages itself
\* (send_stt_message, send_tts_message); the termination calls conn.close()
MessageKinds == {"stt", "sentence_start", "stop"}

\* C21: a notification that has fired and run to its end has sent exactly
\* one protocol message to the client, the notification scheduled by
\* startToChat as well as the sentence_start and stop notifications.
C21_OneMessagePerNotification ==
    \A i \in DOMAIN scheduled_tasks :
        (scheduled_tasks[i].st = "done" /\ scheduled_tasks[i].kind \in MessageKinds)
            => scheduled_tasks[i].prog = 1

\* C22: while asr_server_receive is false a frame is ignored completely:
\* with no handler running, no step changes the utterance buffer or the
\* silence timer, starts a transcription or a response, or (in auto mode,
\* where only frames set them) changes the voice flags.
C22_FramesIgnoredWhilePaused ==
    [][(~asr_server_receive /\ pc = "idle") =>
          /\ asr_audio' = asr_audio
          /\ client_no_voice_last_time' = client_no_voice_last_time
          /\ pc' = "idle" /\ utt' = utt /\ asr_text' = asr_text
          /\ nchat' = nchat /\ Len(chats') <= Len(chats)
          /\ client_listen_mode = "auto" =>
                /\ client_have_voice' = client_have_voice
                /\ client_voice_stop' = client_voice_stop]_vars

\* intake is paused while the silence timer is running, so that a silent
\* frame would act on the timer if it were not ignored
C22_Witness ==
    /\ ~closed /\ pc = "idle" /\ ~asr_server_receive
    /\ client_no_voice_last_time # 0
    /\ \E i \in DOMAIN scheduled_tasks : Outstanding(scheduled_tasks[i])

\* C23: a non-200 response and a 200 response with a malformed body are
\* both retried: upload gives up on either only when max_retries requests
\* have been made.
C23_BadResponsesAreRetried ==
    [][(UploadCompletes /\ last_upload'.why \in {"non200", "badjson"})
          => retry = max_retries - 1]_vars

\* a failed attempt is followed by another one
UploadRetries == apc = "upload" /\ retry' = retry + 1

\* C24, as stated: upload makes at most max_retries attempts, and every
\* attempt that is followed by another one is followed by the backoff
\* sleep first.
C24_BackoffBetweenAllAttempts ==
    [][/\ retry' < max_retries
       /\ UploadRetries => apc' = "backoff"]_vars

\* C24, amended: upload makes at most max_retries attempts, an SSL-fallback
\* retry counting as one of them; an attempt that is followed by another one
\* is followed by the backoff sleep first, except after an SSL error with
\* use_http set, where the next attempt follows at once.
C24_BackoffExceptSSLFallback ==
    [][/\ retry' < max_retries
       /\ UploadRetries =>
             IF use_http /\ last_upload'.err = "ssl"
             THEN apc' = "upload"
             ELSE apc' = "backoff"]_vars

\* the last permitted attempt is about to be made after an SSL fallback
C24_Witness ==
    /\ apc = "upload" /\ retry = max_retries - 1
    /\ use_http /\ last_upload.err = "ssl"

\* C25: while the elapsed time is within the head window the slices are
\* only accumulated: no frame is examined, no silence is counted, no upload
\* is started, and process_audio has not returned on silence.
C25_HeadWindowOnlyAccumulates ==
    elapsed <= audio_head =>
        /\ apc \in {"loop", "done"}
        /\ result.how # "silence"
        /\ ~is_in_silence /\ silent_duration = 0 /\ silent_run = 0
        /\ last_upload.why = "none" /\ retry = 0 /\ self_text = <<>>

\* several slices have been taken inside the head window
C25_Witness ==
    /\ elapsed <= audio_head /\ chunks_processed >= 2 /\ apc = "loop"

\* a silent frame is examined
SilentFrame == apc = "frames" /\ silent_run' = silent_run + 1

\* C26: the accumulated audio is uploaded exactly once per run of silence,
\* at its first frame: a silent frame starts an upload if and only if it is
\* the first of its run, and nothing else starts one.
C26_OneUploadPerSilenceRun ==
    [][/\ SilentFrame => (apc' = "upload" <=> silent_run = 0)
       /\ (apc # "upload" /\ apc' = "upload") => (SilentFrame \/ apc = "backoff")]_vars

\* a second run of silence has started its upload after the upload of an
\* earlier run had completed
C26_Witness ==
    /\ apc = "upload" /\ silent_run = 1 /\ is_in_silence
    /\ last_upload.why = "ok"

\* the sentence_start and stop notifications of response rid
BoundaryTasks(rid) == TasksOf(rid, "sentence_start") \cup TasksOf(rid, "stop")

\* C27: the termination is scheduled only when the last segment of a
\* finished response is sent and the first or the last segment holds a
\* farewell token; scheduling it changes no notification scheduled before;
\* and when it fires no sentence_start or stop notification of its response
\* is lost: each of them has fired.
C27_TerminationLosesNoNotification ==
    [][/\ Created("finish") # {} =>
             /\ send_pc = "sending" /\ llm_finish_task
             /\ Head(resp).text = tts_last_text
             /\ isLLMWantToFinish(tts_first_text, tts_last_text)
             /\ \A j \in DOMAIN scheduled_tasks :
                   scheduled_tasks'[j] = scheduled_tasks[j]
       /\ \A i \in DOMAIN scheduled_tasks :
             (scheduled_tasks[i].kind = "finish" /\ Fires(i)) =>
                \A j \in BoundaryTasks(scheduled_tasks[i].rid) :
                   scheduled_tasks[j].st # "cancelled"
                      => scheduled_tasks'[j].st = "done"]_vars

\* what wait_for_completion has done is what the statuses call for
WaitOutcomeSound ==
    /\ wait_outcome = "returned" => task_status = "done_url"
    /\ task_status \in {"done_nourl", "failed", "error", "http"}
          => wait_outcome = "raised"
    /\ task_status \in {"processing", "unknown"} =>
          \/ wait_outcome = "none" /\ cpc \in {"sleep", "top", "poll"}
          \/ wait_outcome = "timeout"
    /\ wait_outcome = "timeout" => wait_elapsed > timeout
    /\ cpc = "poll" => wait_elapsed <= timeout
    /\ (cpc = "done" /\ wait_outcome \in {"raised", "timeout"}) => ~file_exists

\* C28: wait_for_completion always terminates: it goes on polling while the
\* task is processing or of unknown status, returns only on "done" with an
\* audio_url, raises at once on "failed" or an error, raises a timeout once
\* the deadline has passed; text_to_speak then ends normally and leaves no
\* output file.
C28_PollingTerminates ==
    /\ []WaitOutcomeSound
    /\ <>(cpc = "done")

\* the task was processing at every poll until the deadline had passed
C28_Witness ==
    /\ cpc = "done" /\ wait_outcome = "timeout"
    /\ task_status = "processing" /\ ~file_exists

====
